---- MODULE Spec2Model ----
(***************************************************************************)
(* Model of telegram_scheduler_bot.py: the in-memory MessageScheduler      *)
(* store, the input parsers, the handle_message coroutine and the          *)
(* deliver_message tasks it spawns.                                        *)
(*                                                                         *)
(* Text is a sequence of tokens (one-character strings, the two markers    *)
(* "message:" / "time:" and numerals are single tokens).  Time is an       *)
(* integer number of clock ticks; a day is DayLen ticks.                   *)
(*                                                                         *)
(* Three specifications share the variables:                               *)
(*   Spec       the bot: chat updates, handler coroutines, delivery tasks  *)
(*   StoreSpec  the MessageScheduler API driven by arbitrary calls         *)
(*   ParseSpec  parse_time_input applied to bounded inputs                 *)
(***************************************************************************)
EXTENDS Integers, Sequences, FiniteSets, TLC

VARIABLES
    now,                 \* the wall clock, datetime.now()
    scheduled_messages,  \* MessageScheduler.scheduled_messages: user_id -> list
    reqs,                \* one entry per chat update handled by handle_message
    deliveries,          \* the delivery events emitted by deliver_message
    hist,                \* StoreSpec: the API calls made so far
    ret,                 \* StoreSpec: what the last API call returned
    pin,                 \* ParseSpec: the input of parse_time_input
    pout,                \* ParseSpec and MsgSpec: the parser's result
    listing              \* the last list_scheduled handler: its reply, its position

vars == <<now, scheduled_messages, reqs, deliveries, hist, ret, pin, pout,
          listing>>

(***************************************************************************)
(* Bounds of the model.                                                    *)
(***************************************************************************)
MaxNow == 2          \* the clock of Spec runs over 0..MaxNow
MaxReq == 2          \* chat updates handled in one behaviour of Spec
MaxOps == 3          \* API calls made in one behaviour of StoreSpec
StoreMaxNow == 1     \* the clock of StoreSpec runs over 0..StoreMaxNow
Half == 2            \* hours in half a day (12 on the real clock)
MinPerHour == 2      \* minutes in an hour (60 on the real clock)
SecPerMin == 1       \* seconds in a minute (60 on the real clock)
MaxTextLen == 7      \* tokens in a chat text of MsgSpec

HoursPerDay == 2 * Half
DayLen == HoursPerDay * MinPerHour * SecPerMin

Users == {1, 2}
None == -1           \* Python's None where a timestamp is expected

(***************************************************************************)
(* MessageScheduler                                                        *)
(***************************************************************************)
EmptyStore == [u \in {} |-> <<>>]

Matches(msg, message, delivery_time) ==
    msg.message = message /\ msg.delivery_time = delivery_time

\* Mutant: the new record is inserted at the head of the owner's list.
schedule_message_prepend(store, user_id, message, delivery_time, at) ==
    LET old == IF user_id \in DOMAIN store THEN store[user_id] ELSE <<>>
        scheduled_msg == [message |-> message,
                          delivery_time |-> delivery_time,
                          scheduled_at |-> at]
    IN  [store |-> [u \in DOMAIN store \cup {user_id} |->
                        IF u = user_id THEN <<scheduled_msg>> \o old
                        ELSE store[u]],
         ok |-> TRUE]

\* Mutant: a (text, timestamp) pair already present is refused.
schedule_message_unique(store, user_id, message, delivery_time, at) ==
    LET old == IF user_id \in DOMAIN store THEN store[user_id] ELSE <<>>
        scheduled_msg == [message |-> message,
                          delivery_time |-> delivery_time,
                          scheduled_at |-> at]
        dup == \E i \in 1..Len(old) : Matches(old[i], message, delivery_time)
    IN  [store |-> [u \in DOMAIN store \cup {user_id} |->
                        IF u = user_id
                        THEN (IF dup THEN old ELSE Append(old, scheduled_msg))
                        ELSE store[u]],
         ok |-> ~dup]

\* schedule_message: create the owner's list if absent, append, return True.
schedule_message(store, user_id, message, delivery_time, at) ==
    LET s1 == IF user_id \in DOMAIN store
              THEN store
              ELSE [u \in DOMAIN store \cup {user_id} |->
                        IF u = user_id THEN <<>> ELSE store[u]]
        scheduled_msg == [message |-> message,
                          delivery_time |-> delivery_time,
                          scheduled_at |-> at]
    IN  [store |-> [s1 EXCEPT ![user_id] = Append(@, scheduled_msg)],
         ok |-> TRUE]

\* get_user_scheduled_messages: dict.get(user_id, [])
get_user_scheduled_messages(store, user_id) ==
    IF user_id \in DOMAIN store THEN store[user_id] ELSE <<>>

\* Mutant: only the first matching record is deleted (list.remove).
remove_first_match(store, user_id, message, delivery_time) ==
    IF /\ user_id \in DOMAIN store
       /\ \E i \in 1..Len(store[user_id]) :
              Matches(store[user_id][i], message, delivery_time)
    THEN LET l == store[user_id]
             i == CHOOSE k \in 1..Len(l) :
                     /\ Matches(l[k], message, delivery_time)
                     /\ \A j \in 1..(k - 1) :
                            ~Matches(l[j], message, delivery_time)
         IN  [store EXCEPT ![user_id] =
                 SubSeq(l, 1, i - 1) \o SubSeq(l, i + 1, Len(l))]
    ELSE store

\* Mutant: the filtered list is computed but never stored back.
remove_not_stored(store, user_id, message, delivery_time) == store

\* Mutant: the filter compares the text only.
remove_by_text(store, user_id, message, delivery_time) ==
    IF user_id \in DOMAIN store
    THEN [store EXCEPT ![user_id] =
            SelectSeq(@, LAMBDA msg : ~(msg.message = message))]
    ELSE store

\* remove_delivered_message: keep the records that do not match both fields.
remove_delivered_message(store, user_id, message, delivery_time) ==
    IF user_id \in DOMAIN store
    THEN [store EXCEPT ![user_id] =
            SelectSeq(@, LAMBDA msg : ~Matches(msg, message, delivery_time))]
    ELSE store

(***************************************************************************)
(* Text: sequences of tokens.                                              *)
(***************************************************************************)
IsSpace(t) == t \in {" ", "\n"}

Max(S) == CHOOSE x \in S : \A y \in S : y <= x
Min(S) == CHOOSE x \in S : \A y \in S : x <= y

\* str.strip()
Strip(s) ==
    LET keep == {k \in 1..Len(s) : ~IsSpace(s[k])}
    IN  IF keep = {} THEN <<>> ELSE SubSeq(s, Min(keep), Max(keep))

\* str.upper() on the tokens that have a case
UpperTok(t) ==
    CASE t = "am" -> "AM"
      [] t = "pm" -> "PM"
      [] t = "tomorrow" -> "TOMORROW"
      [] OTHER -> t

Upper(s) == [k \in 1..Len(s) |-> UpperTok(s[k])]

\* re.sub(r'\s+', ' ', s): every run of whitespace becomes one blank
RECURSIVE Collapse(_)
Collapse(s) ==
    IF s = <<>> THEN <<>>
    ELSE IF IsSpace(s[1])
         THEN IF Len(s) >= 2 /\ IsSpace(s[2])
              THEN Collapse(Tail(s))
              ELSE <<" ">> \o Collapse(Tail(s))
         ELSE <<s[1]>> \o Collapse(Tail(s))

\* The numerals a time field can be written with, and their values.
Numerals == {<<"0", 0>>, <<"00", 0>>, <<"1", 1>>, <<"01", 1>>, <<"2", 2>>,
             <<"02", 2>>, <<"3", 3>>, <<"4", 4>>, <<"5", 5>>, <<"6", 6>>,
             <<"7", 7>>, <<"8", 8>>, <<"9", 9>>}

IsNum(t) == \E p \in Numerals : p[1] = t
Val(t) == (CHOOSE p \in Numerals : p[1] = t)[2]

(***************************************************************************)
(* parse_time_input                                                        *)
(***************************************************************************)
\* The formats list, in the order it is tried.
Formats == <<
    <<"H", ":", "M">>,
    <<"H", ":", "M", ":", "S">>,
    <<"I", ":", "M", " ", "p">>,
    <<"I", ":", "M", ":", "S", " ", "p">>,
    <<"I", ":", "M", "p">>,
    <<"I", ":", "M", ":", "S", "p">> >>

\* One directive or literal of a format against one token.
FieldOK(f, t) ==
    CASE f = "H" -> IsNum(t) /\ Val(t) \in 0..(HoursPerDay - 1)
      [] f = "I" -> IsNum(t) /\ Val(t) \in 1..Half
      [] f = "M" -> IsNum(t) /\ Val(t) \in 0..(MinPerHour - 1)
      [] f = "S" -> IsNum(t) /\ Val(t) \in 0..(SecPerMin - 1)
      [] f = "p" -> t \in {"AM", "PM"}
      [] OTHER -> t = f

\* datetime.strptime(s, fmt) does not raise ValueError
StrptimeOK(s, fmt) ==
    /\ Len(s) = Len(fmt)
    /\ \A k \in 1..Len(fmt) : FieldOK(fmt[k], s[k])

Field(s, fmt, f, default) ==
    IF \E k \in 1..Len(fmt) : fmt[k] = f
    THEN Val(s[CHOOSE k \in 1..Len(fmt) : fmt[k] = f])
    ELSE default

\* datetime.strptime(s, fmt).time(), in ticks since midnight
StrptimeTime(s, fmt) ==
    LET pm == \E k \in 1..Len(fmt) : fmt[k] = "p" /\ s[k] = "PM"
        h12 == Field(s, fmt, "I", 0)
        hour == IF \E k \in 1..Len(fmt) : fmt[k] = "I"
                THEN (IF h12 = Half THEN 0 ELSE h12) + (IF pm THEN Half ELSE 0)
                ELSE Field(s, fmt, "H", 0)
    IN  (hour * MinPerHour + Field(s, fmt, "M", 0)) * SecPerMin
            + Field(s, fmt, "S", 0)

\* Mutant: a time equal to the current instant is kept for today.
parse_time_input_not_strict(time_str, at) ==
    LET s == Collapse(Upper(Strip(time_str)))
        ok == {k \in 1..Len(Formats) : StrptimeOK(s, Formats[k])}
    IN  IF ok = {} THEN None
        ELSE LET today == (at \div DayLen) * DayLen
                              + StrptimeTime(s, Formats[Min(ok)])
             IN  IF today < at THEN today + DayLen ELSE today

\* parse_time_input: the first format that parses decides; the time of day is
\* taken today, or tomorrow when today's instant is not after the call time.
parse_time_input(time_str, at) ==
    LET s == Collapse(Upper(Strip(time_str)))
        ok == {k \in 1..Len(Formats) : StrptimeOK(s, Formats[k])}
    IN  IF ok = {} THEN None
        ELSE LET parsed_time == StrptimeTime(s, Formats[Min(ok)])
                 delivery_datetime == (at \div DayLen) * DayLen + parsed_time
             IN  IF delivery_datetime <= at
                 THEN delivery_datetime + DayLen
                 ELSE delivery_datetime

(***************************************************************************)
(* parse_message_input                                                     *)
(***************************************************************************)
\* re.IGNORECASE on the two literal markers of the pattern
IsMessageMarker(t) == t \in {"message:", "Message:", "MESSAGE:"}
IsTimeMarker(t) == t \in {"time:", "Time:", "TIME:"}

\* length of the whitespace run of s that starts at position p
WsRun(s, p) ==
    Max({k \in 0..(Len(s) - p + 1) : \A j \in p..(p + k - 1) : IsSpace(s[j])})

\* With group 1 ending before position c: ",\s*time:\s*(.+)" matches from c.
TailMatches(s, c) ==
    /\ c <= Len(s)
    /\ s[c] = ","
    /\ LET t == c + 1 + WsRun(s, c + 1)
       IN  t < Len(s) /\ IsTimeMarker(s[t])

\* The match the backtracking engine finds with "message:" at position i:
\* "\s*" gives up as little as it must, "(.+?)" takes as little as it can.
MatchesAt(s, i) ==
    {wc \in (0..WsRun(s, i + 1)) \X (1..Len(s)) :
        wc[2] >= i + wc[1] + 2 /\ TailMatches(s, wc[2])}

MatchAt(s, i) ==
    LET w == Max({wc[1] : wc \in MatchesAt(s, i)})
        c == Min({wc[2] : wc \in {x \in MatchesAt(s, i) : x[1] = w}})
        t == c + 1 + WsRun(s, c + 1)
        g2 == t + 1 + WsRun(s, t + 1)
    IN  [group1 |-> SubSeq(s, i + 1 + w, c - 1),
         group2 |-> IF g2 <= Len(s) THEN SubSeq(s, g2, Len(s))
                    ELSE SubSeq(s, Len(s), Len(s))]

NoParse == [ok |-> FALSE, message |-> <<>>, time_str |-> <<>>]

\* parse_message_input: re.search takes the leftmost position that matches.
parse_message_input(text0) ==
    LET text == Strip(text0)
        starts == {i \in 1..Len(text) :
                      IsMessageMarker(text[i]) /\ MatchesAt(text, i) # {}}
    IN  IF starts = {} THEN NoParse
        ELSE LET match == MatchAt(text, Min(starts))
                 message == Strip(match.group1)
                 time_str == Strip(match.group2)
             IN  IF message # <<>> /\ time_str # <<>>
                 THEN [ok |-> TRUE, message |-> message, time_str |-> time_str]
                 ELSE NoParse

(***************************************************************************)
(* The clock.  Time passes between any two steps of the program.           *)
(***************************************************************************)
Tick ==
    /\ now < MaxNow
    /\ now' = now + 1
    /\ UNCHANGED <<scheduled_messages, reqs, deliveries, hist, ret, pin, pout, listing>>

(***************************************************************************)
(* StoreSpec: the MessageScheduler API under arbitrary calls.  hist logs   *)
(* each call with the clock value it was made at; ret is the last result.  *)
(***************************************************************************)
Messages == {<<"a">>, <<"b">>}
Whens == {0, 1}

NoRet == [ok |-> FALSE, list |-> <<>>]
NoInput == [tod |-> None, str |-> <<>>, now |-> 0]
NoOut == [done |-> FALSE, value |-> None]
NoListing == [user |-> 0, pc |-> "none", empty |-> TRUE, items |-> <<>>]

Call(op, user_id, message, delivery_time) ==
    [op |-> op, user |-> user_id, message |-> message,
     when |-> delivery_time, at |-> now]

ApiSchedule(user_id, message, delivery_time) ==
    /\ Len(hist) < MaxOps
    /\ LET r == schedule_message(scheduled_messages, user_id, message,
                                 delivery_time, now)
       IN  /\ scheduled_messages' = r.store
           /\ ret' = [ok |-> r.ok, list |-> <<>>]
    /\ hist' = Append(hist, Call("schedule", user_id, message, delivery_time))
    /\ UNCHANGED <<now, reqs, deliveries, pin, pout, listing>>

ApiRemove(user_id, message, delivery_time) ==
    /\ Len(hist) < MaxOps
    /\ scheduled_messages' =
          remove_delivered_message(scheduled_messages, user_id, message,
                                   delivery_time)
    /\ ret' = NoRet
    /\ hist' = Append(hist, Call("remove", user_id, message, delivery_time))
    /\ UNCHANGED <<now, reqs, deliveries, pin, pout, listing>>

ApiList(user_id) ==
    /\ Len(hist) < MaxOps
    /\ ret' = [ok |-> FALSE,
               list |-> get_user_scheduled_messages(scheduled_messages, user_id)]
    /\ hist' = Append(hist, Call("list", user_id, <<>>, 0))
    /\ UNCHANGED <<now, scheduled_messages, reqs, deliveries, pin, pout, listing>>

StoreTick ==
    /\ now < StoreMaxNow
    /\ now' = now + 1
    /\ UNCHANGED <<scheduled_messages, reqs, deliveries, hist, ret, pin, pout, listing>>

StoreInit ==
    /\ now = 0
    /\ scheduled_messages = EmptyStore
    /\ reqs = <<>>
    /\ deliveries = <<>>
    /\ hist = <<>>
    /\ ret = NoRet
    /\ pin = NoInput
    /\ pout = NoOut
    /\ listing = NoListing

StoreNext ==
    \/ \E u \in Users, m \in Messages, d \in Whens : ApiSchedule(u, m, d)
    \/ \E u \in Users, m \in Messages, d \in Whens : ApiRemove(u, m, d)
    \/ \E u \in Users : ApiList(u)
    \/ StoreTick

StoreSpec == StoreInit /\ [][StoreNext]_vars

(***************************************************************************)
(* Claims about the MessageScheduler API (checked under StoreSpec).        *)
(***************************************************************************)
ListOf(store, u) == get_user_scheduled_messages(store, u)

Count(l, m, d) == Len(SelectSeq(l, LAMBDA msg : Matches(msg, m, d)))

Others(l, m, d) == SelectSeq(l, LAMBDA msg : ~Matches(msg, m, d))

IsCall(c, op, u, m, d) ==
    c.op = op /\ c.user = u /\ c.message = m /\ c.when = d

LastCall == hist[Len(hist)]

\* schedule(u, m, d) calls among h[1..k] made after the last remove(u, m, d)
SchedSince(h, k, u, m, d) ==
    Cardinality({i \in 1..k :
        /\ IsCall(h[i], "schedule", u, m, d)
        /\ \A j \in (i + 1)..k : ~IsCall(h[j], "remove", u, m, d)})

\* The records of u that the calls h[1..k] scheduled and did not remove later,
\* in the order of the schedule calls.
RECURSIVE Expected(_, _, _)
Expected(h, k, u) ==
    IF k = 0 THEN <<>>
    ELSE LET c == h[k]
             live == /\ c.op = "schedule"
                     /\ c.user = u
                     /\ \A j \in (k + 1)..Len(h) :
                            ~IsCall(h[j], "remove", u, c.message, c.when)
         IN  IF live
             THEN Append(Expected(h, k - 1, u),
                         [message |-> c.message, delivery_time |-> c.when,
                          scheduled_at |-> c.at])
             ELSE Expected(h, k - 1, u)

\* C5: two schedule calls of one owner with identical text and timestamp
\* leave two matching records in the owner's list, and one remove call with
\* that text and timestamp then leaves none.
C5_DuplicatesRemovedTogether ==
    \A u \in Users, m \in Messages, d \in Whens :
        /\ SchedSince(hist, Len(hist), u, m, d) = 2
              => Count(ListOf(scheduled_messages, u), m, d) = 2
        /\ ( /\ Len(hist) >= 1
             /\ IsCall(LastCall, "remove", u, m, d)
             /\ SchedSince(hist, Len(hist) - 1, u, m, d) = 2 )
              => Count(ListOf(scheduled_messages, u), m, d) = 0

C5_Witness ==
    /\ Len(hist) = 3
    /\ LastCall.op = "remove"
    /\ SchedSince(hist, 2, LastCall.user, LastCall.message, LastCall.when) = 2
    /\ ListOf(scheduled_messages, LastCall.user) = <<>>

\* C6: right after remove(u, m, d), when schedule(u, m, d) was called at some
\* earlier point, list(u) holds no record with text m and timestamp d.
C6_RemovedIsAbsent ==
    \A u \in Users, m \in Messages, d \in Whens :
        ( /\ Len(hist) >= 2
          /\ IsCall(LastCall, "remove", u, m, d)
          /\ \E i \in 1..(Len(hist) - 1) : IsCall(hist[i], "schedule", u, m, d) )
           => \A k \in 1..Len(ListOf(scheduled_messages, u)) :
                 ~Matches(ListOf(scheduled_messages, u)[k], m, d)

C6_Witness ==
    /\ Len(hist) = 3
    /\ LastCall.op = "remove"
    /\ IsCall(hist[1], "schedule", LastCall.user, LastCall.message, LastCall.when)
    /\ hist[2].op = "schedule"
    /\ hist[2].user = LastCall.user
    /\ Len(ListOf(scheduled_messages, LastCall.user)) = 1

\* C8: list(owner) is exactly the owner's records scheduled and not removed
\* since, in scheduling order; a list call returns that and leaves the store
\* alone, and an owner who never scheduled has no entry and an empty list.
C8_ListIsLiveRecords ==
    /\ \A u \in Users :
          /\ ListOf(scheduled_messages, u) = Expected(hist, Len(hist), u)
          /\ u \in DOMAIN scheduled_messages
                => \E i \in 1..Len(hist) :
                       hist[i].op = "schedule" /\ hist[i].user = u
    /\ (Len(hist) >= 1 /\ LastCall.op = "list")
          => ret.list = Expected(hist, Len(hist), LastCall.user)

C8_Witness ==
    /\ Len(hist) = 3
    /\ LastCall.op = "list"
    /\ Len(ret.list) = 2
    /\ ret.list[1].message # ret.list[2].message
    /\ \E v \in Users : v \notin DOMAIN scheduled_messages

\* C9: every schedule call returns true, appends one record with the given
\* text and timestamp at the end of the owner's list, keeps the earlier
\* records in place and leaves the other owners' lists as they were.
C9_ScheduleAppends ==
    [][ (Len(hist') = Len(hist) + 1 /\ hist'[Len(hist')].op = "schedule")
        => LET c == hist'[Len(hist')]
           IN  /\ ret'.ok = TRUE
               /\ ListOf(scheduled_messages', c.user) =
                     Append(ListOf(scheduled_messages, c.user),
                            [message |-> c.message, delivery_time |-> c.when,
                             scheduled_at |-> c.at])
               /\ \A v \in Users \ {c.user} :
                     /\ (v \in DOMAIN scheduled_messages')
                           <=> (v \in DOMAIN scheduled_messages)
                     /\ ListOf(scheduled_messages', v) =
                           ListOf(scheduled_messages, v) ]_vars

C9_Witness ==
    /\ Len(hist) >= 2
    /\ LastCall.op = "schedule"
    /\ LastCall.when < LastCall.at
    /\ ret.ok
    /\ Count(ListOf(scheduled_messages, LastCall.user),
             LastCall.message, LastCall.when) = 2

\* C10: a remove call keeps, in order, every record of the owner that differs
\* from the arguments in text or in timestamp, adds nothing, leaves the other
\* owners untouched, and changes nothing when the owner has no entry.
C10_RemoveFrame ==
    [][ (Len(hist') = Len(hist) + 1 /\ hist'[Len(hist')].op = "remove")
        => LET c == hist'[Len(hist')]
           IN  /\ Others(ListOf(scheduled_messages', c.user), c.message, c.when)
                    = Others(ListOf(scheduled_messages, c.user), c.message, c.when)
               /\ Len(ListOf(scheduled_messages', c.user))
                    <= Len(ListOf(scheduled_messages, c.user))
               /\ \A v \in Users \ {c.user} :
                     /\ (v \in DOMAIN scheduled_messages')
                           <=> (v \in DOMAIN scheduled_messages)
                     /\ ListOf(scheduled_messages', v) =
                           ListOf(scheduled_messages, v)
               /\ c.user \notin DOMAIN scheduled_messages
                     => scheduled_messages' = scheduled_messages ]_vars

C10_Witness ==
    /\ Len(hist) = 3
    /\ LastCall.op = "remove"
    /\ hist[1].op = "schedule" /\ hist[2].op = "schedule"
    /\ \E l \in {ListOf(scheduled_messages, LastCall.user)} :
          /\ Len(l) = 1
          /\ l[1].message = LastCall.message
          /\ l[1].delivery_time # LastCall.when

(***************************************************************************)
(* ParseSpec: parse_time_input applied once to a time string written in    *)
(* one of the advertised formats (or to an unsupported string) at a call   *)
(* time within two days.  pin.tod is the time of day the string was        *)
(* written from, in ticks since midnight (None for an unsupported string). *)
(***************************************************************************)
Digits == <<"0", "1", "2", "3", "4", "5", "6", "7", "8", "9">>
Padded == <<"00", "01", "02">>

NumStr(n, style) ==
    IF style = 2 /\ n < Len(Padded) THEN Padded[n + 1] ELSE Digits[n + 1]

TimeOfDay(h, m, sec) == (h * MinPerHour + m) * SecPerMin + sec

\* The time h:m:sec written in format f (an index of Formats); style 2 uses
\* padded numerals, lower case am/pm and extra blanks.
Render(h, m, sec, f, style) ==
    LET hh == IF f \in {1, 2} THEN h
              ELSE IF h % Half = 0 THEN Half ELSE h % Half
        ap == IF h < Half
              THEN (IF style = 2 THEN "am" ELSE "AM")
              ELSE (IF style = 2 THEN "pm" ELSE "PM")
        lead == IF style = 2 THEN <<" ">> ELSE <<>>
        gap == IF style = 2 THEN <<" ", " ">> ELSE <<" ">>
    IN  lead \o <<NumStr(hh, style), ":", NumStr(m, style)>>
          \o (IF f \in {2, 4, 6} THEN <<":", NumStr(sec, style)>> ELSE <<>>)
          \o (IF f \in {3, 4} THEN gap \o <<ap>>
              ELSE IF f \in {5, 6} THEN <<ap>> ELSE <<>>)

Supported ==
    {[tod |-> TimeOfDay(x[1], x[2], x[3]),
      str |-> Render(x[1], x[2], x[3], x[4], x[5])] :
        x \in {y \in (0..(HoursPerDay - 1)) \X (0..(MinPerHour - 1))
                       \X (0..(SecPerMin - 1)) \X (1..6) \X {1, 2} :
                  y[4] \in {1, 3, 5} => y[3] = 0}}

Unsupported ==
    {[tod |-> None, str |-> t] :
        t \in {<<"tomorrow">>,
               <<>>,
               <<Digits[HoursPerDay + 1], ":", "0">>,
               <<"0", ":", "0", " ", "AM">>,
               <<Digits[Half + 2], ":", "0", "PM">>,
               <<"1", ":", Digits[MinPerHour + 1]>>,
               <<"1", " ", ":", "0">>}}

ParseInit ==
    /\ now = 0
    /\ scheduled_messages = EmptyStore
    /\ reqs = <<>>
    /\ deliveries = <<>>
    /\ hist = <<>>
    /\ ret = NoRet
    /\ pin \in {[tod |-> x.tod, str |-> x.str, now |-> n] :
                   x \in Supported \cup Unsupported,
                   n \in 0..(2 * DayLen - 1)}
    /\ pout = NoOut
    /\ listing = NoListing

ParseTimeCall ==
    /\ ~pout.done
    /\ pout' = [done |-> TRUE, value |-> parse_time_input(pin.str, pin.now)]
    /\ UNCHANGED <<now, scheduled_messages, reqs, deliveries, hist, ret, pin,
                   listing>>

ParseNext == ParseTimeCall

ParseSpec == ParseInit /\ [][ParseNext]_vars

Today(tod, at) == (at \div DayLen) * DayLen + tod

\* C4: for a time string of a supported format written from time of day T
\* and any call time, parse_time_input returns an instant strictly after the
\* call time, at time of day T, at most one day ahead: today at T when that
\* is strictly after the call time, and tomorrow at T otherwise.
C4_NextOccurrence ==
    (pout.done /\ pin.tod # None)
       => /\ pout.value # None
          /\ pout.value > pin.now
          /\ pout.value % DayLen = pin.tod
          /\ pout.value <= pin.now + DayLen
          /\ Today(pin.tod, pin.now) > pin.now
                => pout.value = Today(pin.tod, pin.now)
          /\ Today(pin.tod, pin.now) <= pin.now
                => pout.value = Today(pin.tod, pin.now) + DayLen

C4_Witness ==
    /\ pout.done
    /\ pin.tod # None
    /\ Today(pin.tod, pin.now) = pin.now
    /\ pout.value = pin.now + DayLen

(***************************************************************************)
(* Spec: the bot.  A chat update runs handle_message up to its first       *)
(* await; awaiting the reply suspends the handler; on resumption a         *)
(* confirmed request creates its deliver_message task, which starts at a   *)
(* later step of the event loop, sleeps, and is resumed by its timer.      *)
(* The application dispatches updates one at a time: a new update is       *)
(* handled when no handler is suspended in a reply.                        *)
(***************************************************************************)
ChatTods == {1, 2}

\* tod written in format f
RenderTod(tod, f, style) ==
    Render(tod \div (MinPerHour * SecPerMin),
           (tod \div SecPerMin) % MinPerHour,
           tod % SecPerMin, f, style)

ChatText(m, ts) == <<"message:", " ">> \o m \o <<",", " ", "time:", " ">> \o ts

ChatTexts ==
    {ChatText(<<"a">>, RenderTod(t, 2, 1)) : t \in ChatTods}
      \cup {<<"Message:", "b", ",", "TIME:">> \o RenderTod(1, 4, 2),
            <<"a">>,
            ChatText(<<" ">>, RenderTod(1, 2, 1)),
            ChatText(<<"a">>, <<"tomorrow">>)}

AwaitingReply == {"reply_format", "reply_time", "reply_confirm", "reply_failed"}

NewReq(user_id, text, pc, reply) ==
    [user |-> user_id, text |-> text, message |-> <<>>, delivery_time |-> None,
     pc |-> pc, replies |-> <<reply>>, delay |-> 0, wake |-> None]

\* Mutant: the record is stored before the time string is validated.
handle_message_no_time_check(store, user_id, text, at) ==
    LET parsed == parse_message_input(text)
        delivery_time == parse_time_input(parsed.time_str, at)
        r == schedule_message(store, user_id, parsed.message, delivery_time, at)
    IN  IF ~parsed.ok
        THEN [store |-> store,
              req |-> NewReq(user_id, text, "reply_format", "format_guidance")]
        ELSE [store |-> r.store,
              req |-> [NewReq(user_id, text, "reply_confirm", "confirmation")
                         EXCEPT !.message = parsed.message,
                                !.delivery_time = delivery_time]]

\* Mutant: the delivery task is created before the confirmation is awaited.
handle_message_task_first(store, user_id, text, at) ==
    LET parsed == parse_message_input(text)
        delivery_time == parse_time_input(parsed.time_str, at)
        r == schedule_message(store, user_id, parsed.message, delivery_time, at)
    IN  IF ~parsed.ok
        THEN [store |-> store,
              req |-> NewReq(user_id, text, "reply_format", "format_guidance")]
        ELSE IF delivery_time = None
        THEN [store |-> store,
              req |-> NewReq(user_id, text, "reply_time", "time_guidance")]
        ELSE [store |-> r.store,
              req |-> [NewReq(user_id, text, "created", "confirmation")
                         EXCEPT !.message = parsed.message,
                                !.delivery_time = delivery_time]]

\* handle_message up to the await of its reply: the new store and the
\* handler's state (its position, the reply it sends, its locals).
handle_message(store, user_id, text, at) ==
    LET parsed == parse_message_input(text)
        delivery_time == parse_time_input(parsed.time_str, at)
        r == schedule_message(store, user_id, parsed.message, delivery_time, at)
    IN  IF ~parsed.ok
        THEN [store |-> store,
              req |-> NewReq(user_id, text, "reply_format", "format_guidance")]
        ELSE IF delivery_time = None
        THEN [store |-> store,
              req |-> NewReq(user_id, text, "reply_time", "time_guidance")]
        ELSE IF r.ok
        THEN [store |-> r.store,
              req |-> [NewReq(user_id, text, "reply_confirm", "confirmation")
                         EXCEPT !.message = parsed.message,
                                !.delivery_time = delivery_time]]
        ELSE [store |-> r.store,
              req |-> [NewReq(user_id, text, "reply_failed", "failed")
                         EXCEPT !.message = parsed.message,
                                !.delivery_time = delivery_time]]

HandleMessage(user_id, text) ==
    /\ Len(reqs) < MaxReq
    /\ \A i \in 1..Len(reqs) : reqs[i].pc \notin AwaitingReply
    /\ listing.pc # "reply_list"
    /\ LET h == handle_message(scheduled_messages, user_id, text, now)
       IN  /\ h.req.delivery_time <= MaxNow   \* due inside the modelled clock
           /\ scheduled_messages' = h.store
           /\ reqs' = Append(reqs, h.req)
    /\ UNCHANGED <<now, deliveries, hist, ret, pin, pout, listing>>

\* The awaited reply_text completes: a confirmed request creates its
\* delivery task, the other branches return.
ReplyDone(i) ==
    /\ i \in 1..Len(reqs)
    /\ reqs[i].pc \in AwaitingReply
    /\ reqs' = [reqs EXCEPT ![i].pc =
                  CASE reqs[i].pc = "reply_confirm" -> "created"
                    [] reqs[i].pc = "reply_failed" -> "failed"
                    [] OTHER -> "rejected"]
    /\ UNCHANGED <<now, scheduled_messages, deliveries, hist, ret, pin, pout, listing>>

\* deliver_message from its start to its sleep, or to its end when the
\* delay is not positive.
TaskStart(i) ==
    /\ i \in 1..Len(reqs)
    /\ reqs[i].pc = "created"
    /\ LET delay == reqs[i].delivery_time - now
       IN  reqs' = [reqs EXCEPT
                      ![i].delay = delay,
                      ![i].wake = IF delay > 0 THEN now + delay ELSE None,
                      ![i].pc = IF delay > 0 THEN "sleeping" ELSE "done"]
    /\ UNCHANGED <<now, scheduled_messages, deliveries, hist, ret, pin, pout, listing>>

\* Mutant: the recipient is looked up in the store by text and timestamp.
TimerFire_by_lookup(i) ==
    /\ i \in 1..Len(reqs)
    /\ reqs[i].pc = "sleeping"
    /\ now >= reqs[i].wake
    /\ LET owners == {u \in DOMAIN scheduled_messages :
                        \E k \in 1..Len(scheduled_messages[u]) :
                            Matches(scheduled_messages[u][k], reqs[i].message,
                                    reqs[i].delivery_time)}
           to == IF owners = {} THEN reqs[i].user ELSE Min(owners)
       IN  deliveries' = Append(deliveries,
                                [req |-> i, user |-> to,
                                 message |-> reqs[i].message,
                                 delivery_time |-> reqs[i].delivery_time,
                                 at |-> now])
    /\ scheduled_messages' =
          remove_delivered_message(scheduled_messages, reqs[i].user,
                                   reqs[i].message, reqs[i].delivery_time)
    /\ reqs' = [reqs EXCEPT ![i].pc = "done"]
    /\ UNCHANGED <<now, hist, ret, pin, pout, listing>>

\* Mutant: the task does not wait for its sleep to elapse.
TimerFire_no_wait(i) ==
    /\ i \in 1..Len(reqs)
    /\ reqs[i].pc = "sleeping"
    /\ deliveries' = Append(deliveries,
                            [req |-> i, user |-> reqs[i].user,
                             message |-> reqs[i].message,
                             delivery_time |-> reqs[i].delivery_time,
                             at |-> now])
    /\ scheduled_messages' =
          remove_delivered_message(scheduled_messages, reqs[i].user,
                                   reqs[i].message, reqs[i].delivery_time)
    /\ reqs' = [reqs EXCEPT ![i].pc = "done"]
    /\ UNCHANGED <<now, hist, ret, pin, pout, listing>>

\* Mutant: the message is emitted only while its record is still stored.
TimerFire_if_present(i) ==
    /\ i \in 1..Len(reqs)
    /\ reqs[i].pc = "sleeping"
    /\ now >= reqs[i].wake
    /\ LET present ==
              /\ reqs[i].user \in DOMAIN scheduled_messages
              /\ \E k \in 1..Len(scheduled_messages[reqs[i].user]) :
                    Matches(scheduled_messages[reqs[i].user][k],
                            reqs[i].message, reqs[i].delivery_time)
       IN  deliveries' =
              IF present
              THEN Append(deliveries,
                          [req |-> i, user |-> reqs[i].user,
                           message |-> reqs[i].message,
                           delivery_time |-> reqs[i].delivery_time,
                           at |-> now])
              ELSE deliveries
    /\ scheduled_messages' =
          remove_delivered_message(scheduled_messages, reqs[i].user,
                                   reqs[i].message, reqs[i].delivery_time)
    /\ reqs' = [reqs EXCEPT ![i].pc = "done"]
    /\ UNCHANGED <<now, hist, ret, pin, pout, listing>>

\* deliver_message after its sleep: emit the message, remove the record.
TimerFire(i) ==
    /\ i \in 1..Len(reqs)
    /\ reqs[i].pc = "sleeping"
    /\ now >= reqs[i].wake
    /\ deliveries' = Append(deliveries,
                            [req |-> i, user |-> reqs[i].user,
                             message |-> reqs[i].message,
                             delivery_time |-> reqs[i].delivery_time,
                             at |-> now])
    /\ scheduled_messages' =
          remove_delivered_message(scheduled_messages, reqs[i].user,
                                   reqs[i].message, reqs[i].delivery_time)
    /\ reqs' = [reqs EXCEPT ![i].pc = "done"]
    /\ UNCHANGED <<now, hist, ret, pin, pout, listing>>

Init ==
    /\ now = 0
    /\ scheduled_messages = EmptyStore
    /\ reqs = <<>>
    /\ deliveries = <<>>
    /\ hist = <<>>
    /\ ret = NoRet
    /\ pin = NoInput
    /\ pout = NoOut
    /\ listing = NoListing

Next ==
    \/ \E u \in Users, text \in ChatTexts : HandleMessage(u, text)
    \/ \E i \in 1..MaxReq : ReplyDone(i)
    \/ \E i \in 1..MaxReq : TaskStart(i)
    \/ \E i \in 1..MaxReq : TimerFire(i)
    \/ Tick

Spec == Init /\ [][Next]_vars

\* The event loop runs every ready coroutine and the clock keeps advancing.
FairSpec ==
    /\ Spec
    /\ WF_vars(Tick)
    /\ \A i \in 1..MaxReq :
          WF_vars(ReplyDone(i)) /\ WF_vars(TaskStart(i)) /\ WF_vars(TimerFire(i))

(***************************************************************************)
(* Claims about the bot (checked under Spec and FairSpec).                 *)
(***************************************************************************)
\* schedule_message succeeded for this request
Stored(r) == r.pc \in {"reply_confirm", "created", "sleeping", "done"}

\* the request's own sleep has ended and its task has resumed
TimerFired(r) == r.pc = "done" /\ r.delay > 0

Delivered(i) == \E k \in 1..Len(deliveries) : deliveries[k].req = i

HasRecord(r) ==
    \E k \in 1..Len(ListOf(scheduled_messages, r.user)) :
        Matches(ListOf(scheduled_messages, r.user)[k], r.message, r.delivery_time)

SameKey(r, q) ==
    r.user = q.user /\ r.message = q.message /\ r.delivery_time = q.delivery_time

\* C1 (as claimed): every request that was parsed and stored is eventually
\* delivered and its record eventually gone from the store, given that the
\* event loop keeps running and the clock keeps advancing.
C1_EventuallyDelivered ==
    \A i \in 1..MaxReq :
        (i <= Len(reqs) /\ Stored(reqs[i]))
            ~> (Delivered(i) /\ ~HasRecord(reqs[i]))

\* C2 (as claimed): a delivery task that found its delay zero or negative
\* and has ended has delivered its message and removed its record.
C2_DueTaskStillDelivers ==
    \A i \in 1..Len(reqs) :
        (reqs[i].pc = "done" /\ reqs[i].delay <= 0)
            => (Delivered(i) /\ ~HasRecord(reqs[i]))

\* C3 (as claimed): a request that was stored and whose own timer has not
\* fired has its record in the owner's list.
C3_StoredUntilOwnTimer ==
    \A i \in 1..Len(reqs) :
        (Stored(reqs[i]) /\ ~TimerFired(reqs[i])) => HasRecord(reqs[i])

\* C3 (amended): a request that was stored has its record in the owner's
\* list as long as no timer has fired for a request with the same owner,
\* text and delivery timestamp (its own or a duplicate's).
C3_StoredUntilMatchingTimer ==
    \A i \in 1..Len(reqs) :
        ( /\ Stored(reqs[i])
          /\ \A j \in 1..Len(reqs) :
                SameKey(reqs[j], reqs[i]) => ~TimerFired(reqs[j]) )
            => HasRecord(reqs[i])

C3_Witness ==
    \E i, j \in 1..Len(reqs) :
        /\ Stored(reqs[i]) /\ reqs[i].pc = "sleeping"
        /\ TimerFired(reqs[j])
        /\ reqs[j].user = reqs[i].user
        /\ reqs[j].message = reqs[i].message
        /\ reqs[j].delivery_time # reqs[i].delivery_time
        /\ HasRecord(reqs[i])

\* the handler's input is rejected: no marker match, or no time format
Rejected(text) ==
    \/ ~parse_message_input(text).ok
    \/ parse_time_input(parse_message_input(text).time_str, 0) = None

\* the chat texts that are rejected, each with the guidance of its case
RejectedTexts == {t \in ChatTexts : Rejected(t)}

GuidanceOf ==
    [t \in RejectedTexts |->
        IF ~parse_message_input(t).ok THEN "format_guidance"
        ELSE "time_guidance"]

\* C7: a chat text that fails either parse gets exactly one reply, the
\* guidance of its case; handling it leaves the store unchanged, and the
\* request never gets a confirmation, a delivery task or a delivery.
C7_RejectedChangesNothing ==
    [][ \A i \in 1..Len(reqs') :
          reqs'[i].text \in RejectedTexts
            => /\ reqs'[i].replies = <<GuidanceOf[reqs'[i].text]>>
               /\ reqs'[i].pc \in {"reply_format", "reply_time", "rejected"}
               /\ i > Len(reqs) => scheduled_messages' = scheduled_messages
               /\ \A k \in 1..Len(deliveries') : deliveries'[k].req # i ]_vars

C7_Witness ==
    /\ Len(reqs) = 2
    /\ reqs[1].pc = "rejected" /\ reqs[1].replies = <<"time_guidance">>
    /\ reqs[2].pc = "rejected" /\ reqs[2].replies = <<"format_guidance">>
    /\ scheduled_messages = EmptyStore
    /\ deliveries = <<>>

\* C11: every delivery event names the user of the request that created it,
\* with that request's text and timestamp; no delivery goes to another user,
\* also when two users have scheduled identical text and timestamp.
C11_DeliveredToOwner ==
    \A k \in 1..Len(deliveries) :
        /\ deliveries[k].req \in 1..Len(reqs)
        /\ deliveries[k].user = reqs[deliveries[k].req].user
        /\ deliveries[k].message = reqs[deliveries[k].req].message
        /\ deliveries[k].delivery_time = reqs[deliveries[k].req].delivery_time

C11_Witness ==
    /\ Len(deliveries) = 1
    /\ Len(reqs) = 2
    /\ reqs[1].user # reqs[2].user
    /\ reqs[1].message = reqs[2].message
    /\ reqs[1].delivery_time = reqs[2].delivery_time
    /\ deliveries[1].req = 2
    /\ deliveries[1].user = reqs[2].user
    /\ HasRecord(reqs[1])

\* C13: no delivery event happens at a clock value before the delivery
\* timestamp of its item.
C13_NoEarlyDelivery ==
    \A k \in 1..Len(deliveries) :
        deliveries[k].at >= deliveries[k].delivery_time

C13_Witness ==
    /\ Len(deliveries) = 2
    /\ deliveries[1].at = deliveries[1].delivery_time
    /\ deliveries[2].at > deliveries[2].delivery_time

HasTask(r) == r.pc \in {"created", "sleeping", "done"}

\* C14: a confirmation is sent only in a step that leaves the request's
\* record in the store, and a request gets its delivery task only from the
\* state where its confirmation reply was awaited; the task starts later.
C14_StoreConfirmThenTask ==
    [][ \A i \in 1..Len(reqs') :
          /\ (i > Len(reqs) /\ reqs'[i].replies = <<"confirmation">>)
                => \E k \in 1..Len(ListOf(scheduled_messages', reqs'[i].user)) :
                       Matches(ListOf(scheduled_messages', reqs'[i].user)[k],
                               reqs'[i].message, reqs'[i].delivery_time)
          /\ HasTask(reqs'[i])
                => /\ i <= Len(reqs)
                   /\ reqs[i].pc = "reply_confirm" \/ HasTask(reqs[i])
                   /\ reqs[i].pc = "reply_confirm" => reqs'[i].pc = "created" ]_vars

\* a record is listed while its request has no delivery task yet
C14_Witness ==
    /\ Len(reqs) = 1
    /\ reqs[1].pc = "reply_confirm"
    /\ reqs[1].replies = <<"confirmation">>
    /\ HasRecord(reqs[1])
    /\ now > 0

DeliveriesOf(i) == {k \in 1..Len(deliveries) : deliveries[k].req = i}

\* C15: a request has at most one delivery event, and exactly one once its
\* timer has fired; a timer that fires when no matching record is left (a
\* duplicate's timer fired first) still emits its delivery and leaves the
\* store as it was.
C15_OneDeliveryPerTimer ==
    [][ /\ \A i \in 1..Len(reqs') :
              /\ Cardinality({k \in 1..Len(deliveries') :
                                 deliveries'[k].req = i}) <= 1
              /\ TimerFired(reqs'[i])
                    => \E k \in 1..Len(deliveries') : deliveries'[k].req = i
        /\ \A i \in 1..Len(reqs) :
              ( /\ reqs[i].pc = "sleeping"
                /\ reqs'[i].pc = "done"
                /\ ~HasRecord(reqs[i]) )
                 => /\ scheduled_messages' = scheduled_messages
                    /\ Len(deliveries') = Len(deliveries) + 1
                    /\ deliveries'[Len(deliveries')].req = i ]_vars

C15_Witness ==
    /\ Len(reqs) = 2
    /\ SameKey(reqs[1], reqs[2])
    /\ DeliveriesOf(1) # {} /\ DeliveriesOf(2) # {}
    /\ Len(deliveries) = 2
    /\ ListOf(scheduled_messages, reqs[1].user) = <<>>

(***************************************************************************)
(* MsgSpec: parse_message_input applied once to any text of at most        *)
(* MaxTextLen tokens over the two markers, the comma, the blank and a      *)
(* letter.                                                                 *)
(***************************************************************************)
Alphabet == {"message:", "time:", ",", " ", "a"}

MsgInit ==
    /\ now = 0
    /\ scheduled_messages = EmptyStore
    /\ reqs = <<>>
    /\ deliveries = <<>>
    /\ hist = <<>>
    /\ ret = NoRet
    /\ pin \in {[tod |-> None, str |-> t, now |-> 0] :
                   t \in UNION {[1..n -> Alphabet] : n \in 0..MaxTextLen}}
    /\ pout = NoOut
    /\ listing = NoListing

ParseMessageCall ==
    /\ ~pout.done
    /\ pout' = [done |-> TRUE, value |-> parse_message_input(pin.str)]
    /\ UNCHANGED <<now, scheduled_messages, reqs, deliveries, hist, ret, pin,
                   listing>>

MsgNext == ParseMessageCall

MsgSpec == MsgInit /\ [][MsgNext]_vars

\* the positions of the delimiters of s: a comma, blanks, a time marker
Delims(s) ==
    {c \in 1..Len(s) :
        /\ s[c] = ","
        /\ c + 1 + WsRun(s, c + 1) <= Len(s)
        /\ IsTimeMarker(s[c + 1 + WsRun(s, c + 1)])}

\* for a message marker at i that has a delimiter after it: the text up to
\* the first such delimiter and the text after its time marker, trimmed
Between(s, i) ==
    LET c == Min({d \in Delims(s) : d > i})
        t == c + 1 + WsRun(s, c + 1)
    IN  [message |-> Strip(SubSeq(s, i + 1, c - 1)),
         time_str |-> Strip(SubSeq(s, t + 1, Len(s)))]

Marked(s) ==
    {i \in 1..Len(s) :
        IsMessageMarker(s[i]) /\ \E d \in Delims(s) : d > i}

\* C12 (as claimed): the parse succeeds exactly when some message marker is
\* followed by a non-empty message up to its first following delimiter and a
\* non-empty time string after that delimiter's time marker, and then
\* returns those two texts, trimmed.
C12_ParseMessageExact ==
    pout.done
      => LET s == Strip(pin.str)
             good == {i \in Marked(s) :
                         /\ Between(s, i).message # <<>>
                         /\ Between(s, i).time_str # <<>>}
         IN  /\ pout.value.ok <=> good # {}
             /\ pout.value.ok
                   => \E i \in good :
                         /\ pout.value.message = Between(s, i).message
                         /\ pout.value.time_str = Between(s, i).time_str

(***************************************************************************)
(* ListSpec: the bot with the /list command.  list_scheduled reads the     *)
(* owner's list and builds its reply without an await in between, then     *)
(* awaits reply_text; the delivery tasks run on during that await.         *)
(***************************************************************************)
ShownLen == 50

\* msg['message'][:50] + "..." if len(msg['message']) > 50 else msg['message']
Shown(message) ==
    IF Len(message) > ShownLen
    THEN SubSeq(message, 1, ShownLen) \o <<"...">>
    ELSE message

\* strftime('%Y-%m-%d %H:%M:%S'): the day, hour, minute and second
Strftime(t) ==
    [day |-> t \div DayLen,
     hour |-> (t % DayLen) \div (MinPerHour * SecPerMin),
     minute |-> ((t % DayLen) \div SecPerMin) % MinPerHour,
     second |-> t % SecPerMin]

\* Mutant: the entries are numbered by enumerate's default, from zero.
list_reply_from_zero(scheduled) ==
    [empty |-> scheduled = <<>>,
     items |-> [k \in 1..Len(scheduled) |->
                  [n |-> k - 1,
                   text |-> Shown(scheduled[k].message),
                   when |-> Strftime(scheduled[k].delivery_time)]]]

\* The reply list_scheduled builds from the list it read.
list_reply(scheduled) ==
    [empty |-> scheduled = <<>>,
     items |-> [k \in 1..Len(scheduled) |->
                  [n |-> k,
                   text |-> Shown(scheduled[k].message),
                   when |-> Strftime(scheduled[k].delivery_time)]]]

\* list_scheduled up to the await of its reply.
ListScheduled(user_id) ==
    /\ \A i \in 1..Len(reqs) : reqs[i].pc \notin AwaitingReply
    /\ listing.pc # "reply_list"
    /\ LET r == list_reply(get_user_scheduled_messages(scheduled_messages,
                                                        user_id))
       IN  listing' = [user |-> user_id, pc |-> "reply_list",
                       empty |-> r.empty, items |-> r.items]
    /\ UNCHANGED <<now, scheduled_messages, reqs, deliveries, hist, ret, pin,
                   pout>>

\* The awaited reply_text of list_scheduled completes.
ListReplyDone ==
    /\ listing.pc = "reply_list"
    /\ listing' = [listing EXCEPT !.pc = "done"]
    /\ UNCHANGED <<now, scheduled_messages, reqs, deliveries, hist, ret, pin,
                   pout>>

ListNext ==
    \/ \E u \in Users, text \in ChatTexts : HandleMessage(u, text)
    \/ \E i \in 1..MaxReq : ReplyDone(i)
    \/ \E i \in 1..MaxReq : TaskStart(i)
    \/ \E i \in 1..MaxReq : TimerFire(i)
    \/ Tick
    \/ \E u \in Users : ListScheduled(u)
    \/ ListReplyDone

ListSpec == Init /\ [][ListNext]_vars

\* C16: the reply of a list command holds exactly the owner's records as
\* the store has them at the step that reads them, numbered from 1 in list
\* order; that step leaves the store alone, and the reply is not rebuilt
\* while it is being sent, whatever is scheduled or delivered meanwhile.
C16_ListingIsSnapshot ==
    [][ /\ (listing'.pc = "reply_list" /\ listing.pc # "reply_list")
              => LET l == ListOf(scheduled_messages, listing'.user)
                 IN  /\ scheduled_messages' = scheduled_messages
                     /\ listing'.empty <=> (l = <<>>)
                     /\ Len(listing'.items) = Len(l)
                     /\ \A k \in 1..Len(l) :
                           /\ listing'.items[k].n = k
                           /\ listing'.items[k].text = l[k].message
                           /\ listing'.items[k].when.day * DayLen
                                + (listing'.items[k].when.hour * MinPerHour
                                     + listing'.items[k].when.minute) * SecPerMin
                                + listing'.items[k].when.second
                                = l[k].delivery_time
        /\ listing.pc = "reply_list"
              => /\ listing'.items = listing.items
                 /\ listing'.user = listing.user ]_vars

\* a reply of two entries is being sent while one of them has been delivered
C16_Witness ==
    /\ listing.pc = "reply_list"
    /\ Len(listing.items) = 2
    /\ Len(ListOf(scheduled_messages, listing.user)) = 1
    /\ Len(deliveries) = 1

====
